---- MODULE Spec2Model ----
(***************************************************************************)
(* The auto-layout engine of the whiteboard (src/components/Whiteboard.tsx) *)
(* as a state machine: the node and edge collections of the canvas, the    *)
(* three layout operations applyLayout, clearLayout and onNodeDrag, and    *)
(* the two ways of adding a node (Add Node / double click, Tab).           *)
(*                                                                         *)
(* A node is a record [id, x, y, draggable, layoutType]; x, y are the      *)
(* node's position.x / position.y, layoutType is data.layoutType with      *)
(* "none" for an absent attribute, draggable is the node's draggable flag  *)
(* (absent on a fresh node, which the canvas treats as draggable: TRUE).   *)
(* An edge is a record [source, target].  Both collections are sequences,  *)
(* as in the source (arrays), so that edge order decides child order.      *)
(*                                                                         *)
(* The fields the layout engine neither reads nor decides (label, note,    *)
(* selected, className, style) are left out.  The variables last and pre   *)
(* record the last operation and the node collection it started from;      *)
(* budget counts the operations a run may still perform.  timers holds the *)
(* callbacks handed to setTimeout and not yet run, each with the edge list *)
(* its closure captured; run is the position of a traversal that is being  *)
(* followed call by call (idle when operations are taken as one step).     *)
(* app is the state of the application around the canvas (App.tsx): the    *)
(* folders, the files with their stored content, the active file, the note *)
(* panel; where it is followed, a node record also carries its note.       *)
(*                                                                         *)
(* All box sizes are multiples of 10 (NODE_WIDTH, NODE_HEIGHT, GAP_X,      *)
(* GAP_Y are), so every "/ 2" of the source is exact and \div models it.   *)
(***************************************************************************)
EXTENDS Integers, Sequences, FiniteSets, TLC

VARIABLES nodes, edges, last, pre, budget, timers, run, app

vars == <<nodes, edges, last, pre, budget, timers, run, app>>

(* ---------------------------- bounds ---------------------------------- *)

\* Spec: number of node ids of the graph, longest edge list, operations per run.
MaxNodes == 3
MaxEdges == 2
MaxSteps == 3
\* SpecPass: number of nodes of the tree-shaped graphs, extra edges, operations.
MaxPassNodes == 4
MaxExtraEdges == 1
MaxPassSteps == 2
\* SpecWide: number of nodes of the trees, operations.
MaxWideNodes == 5
MaxWideSteps == 1
\* SpecEdit: number of nodes the canvas may hold, operations per run.
MaxEditNodes == 4
MaxEditSteps == 3
\* SpecTerm: longest edge list, operations per run, deepest stack a traversal is
\* followed to.
MaxTermEdges == 3
MaxTermSteps == 2
MaxTermStack == 6
\* SpecApp: operations per run, folders and files created per run, nodes on the canvas.
MaxAppSteps == 4
MaxAppCreates == 2
MaxAppNodes == 4

(* ------------------------ program constants --------------------------- *)

NODE_WIDTH == 180
NODE_HEIGHT == 50
GAP_X == 50
GAP_Y == 20

LayoutDirection ==
    {"horizontal-right", "horizontal-left", "vertical-down", "vertical-up", "vertical-stack"}

\* data.layoutType of a node that owns no layout (the attribute is absent).
NoLayout == "none"

(* --------------------------- helpers ---------------------------------- *)

\* allNodes.find(n => n.id === id): index of the first node with that id, 0 if none.
FindIndex(allNodes, id) ==
    IF \E i \in DOMAIN allNodes : allNodes[i].id = id
    THEN CHOOSE i \in DOMAIN allNodes :
            /\ allNodes[i].id = id
            /\ \A j \in DOMAIN allNodes : allNodes[j].id = id => i <= j
    ELSE 0

HasNode(allNodes, id) == FindIndex(allNodes, id) # 0

FindNode(allNodes, id) == allNodes[FindIndex(allNodes, id)]

RECURSIVE Sum(_)
\* reduce((acc, c) => acc + c, 0)
Sum(s) == IF s = <<>> THEN 0 ELSE Head(s) + Sum(Tail(s))

RECURSIVE MaxOf(_)
\* Math.max(...s) of a non-empty list
MaxOf(s) ==
    IF Len(s) = 1 THEN s[1]
    ELSE LET m == MaxOf(Tail(s)) IN IF Head(s) >= m THEN Head(s) ELSE m

Max2(a, b) == IF a >= b THEN a ELSE b

Heights(children) == [i \in DOMAIN children |-> children[i].height]

Widths(children) == [i \in DOMAIN children |-> children[i].width]

RECURSIVE ChildIds(_, _)
\* allEdges.filter(e => e.source === nodeId).map(e => e.target)
ChildIds(allEdges, nodeId) ==
    IF allEdges = <<>> THEN <<>>
    ELSE IF Head(allEdges).source = nodeId
         THEN <<Head(allEdges).target>> \o ChildIds(Tail(allEdges), nodeId)
         ELSE ChildIds(Tail(allEdges), nodeId)

(* ------------------------ Subtree Measurer ----------------------------- *)

\* The "null" a measurement returns for a visited or missing node.
NullTree == [id |-> 0, width |-> 0, height |-> 0, children |-> <<>>]

\* Mutant of Measure: a stack is measured with the full GAP_Y where the assigner
\* uses half of it.
Measure_StackFullGap(layoutType, children) ==
    IF Len(children) > 0
    THEN CASE layoutType \in {"horizontal-right", "horizontal-left"} ->
                [width |-> NODE_WIDTH + GAP_X + MaxOf(Widths(children)),
                 height |-> Max2(NODE_HEIGHT,
                                 Sum(Heights(children)) + (Len(children) - 1) * GAP_Y)]
           [] layoutType \in {"vertical-down", "vertical-up"} ->
                [width |-> Max2(NODE_WIDTH,
                                Sum(Widths(children)) + (Len(children) - 1) * GAP_X),
                 height |-> NODE_HEIGHT + GAP_Y + MaxOf(Heights(children))]
           [] OTHER ->
                [width |-> NODE_WIDTH,
                 height |-> NODE_HEIGHT + GAP_Y + Sum(Heights(children))
                            + (Len(children) - 1) * GAP_Y]
    ELSE [width |-> NODE_WIDTH, height |-> NODE_HEIGHT]

\* Mutant of Measure: the gaps between the children are left out of the sums.
Measure_NoGaps(layoutType, children) ==
    IF Len(children) > 0
    THEN CASE layoutType \in {"horizontal-right", "horizontal-left"} ->
                [width |-> NODE_WIDTH + GAP_X + MaxOf(Widths(children)),
                 height |-> Max2(NODE_HEIGHT, Sum(Heights(children)))]
           [] layoutType \in {"vertical-down", "vertical-up"} ->
                [width |-> Max2(NODE_WIDTH, Sum(Widths(children))),
                 height |-> NODE_HEIGHT + GAP_Y + MaxOf(Heights(children))]
           [] OTHER ->
                [width |-> NODE_WIDTH,
                 height |-> NODE_HEIGHT + (GAP_Y \div 2) + Sum(Heights(children))]
    ELSE [width |-> NODE_WIDTH, height |-> NODE_HEIGHT]

\* The box of a node from the boxes of its kept children.
Measure(layoutType, children) ==
    IF Len(children) > 0
    THEN CASE layoutType \in {"horizontal-right", "horizontal-left"} ->
                LET childrenHeight == Sum(Heights(children)) + (Len(children) - 1) * GAP_Y
                    childrenWidth == MaxOf(Widths(children))
                IN  [width |-> NODE_WIDTH + GAP_X + childrenWidth,
                     height |-> Max2(NODE_HEIGHT, childrenHeight)]
           [] layoutType \in {"vertical-down", "vertical-up"} ->
                LET childrenWidth == Sum(Widths(children)) + (Len(children) - 1) * GAP_X
                    childrenHeight == MaxOf(Heights(children))
                IN  [width |-> Max2(NODE_WIDTH, childrenWidth),
                     height |-> NODE_HEIGHT + GAP_Y + childrenHeight]
           [] layoutType = "vertical-stack" ->
                LET childrenHeight ==
                        Sum(Heights(children)) + (Len(children) - 1) * (GAP_Y \div 2)
                IN  [width |-> NODE_WIDTH,
                     height |-> NODE_HEIGHT + (GAP_Y \div 2) + childrenHeight]
           [] OTHER -> [width |-> NODE_WIDTH, height |-> NODE_HEIGHT]
    ELSE [width |-> NODE_WIDTH, height |-> NODE_HEIGHT]

\* Mutant of KeepsChild: the measurer does not stop at a child that owns a layout.
KeepsChild_IgnoresLayout(allNodes, childId) == HasNode(allNodes, childId)

\* Whether the measurer descends into the target of an edge: the target exists
\* and declares no layoutType of its own.
KeepsChild(allNodes, childId) ==
    /\ HasNode(allNodes, childId)
    /\ FindNode(allNodes, childId).layoutType = NoLayout

RECURSIVE buildLayoutTree(_, _, _, _, _)
RECURSIVE BuildChildren(_, _, _, _, _, _)

\* Mutant of buildLayoutTree: a node missing from the collection is measured like any
\* other instead of yielding null.
buildLayoutTree_NoMissingCheck(nodeId, layoutType, allNodes, allEdges, visited) ==
    IF nodeId \in visited
    THEN [tree |-> NullTree, visited |-> visited]
    ELSE LET r == BuildChildren(ChildIds(allEdges, nodeId), layoutType, allNodes,
                                allEdges, visited \cup {nodeId}, <<>>)
             box == Measure(layoutType, r.children)
         IN  [tree |-> [id |-> nodeId, width |-> box.width, height |-> box.height,
                        children |-> r.children],
              visited |-> r.visited]

\* The measurer.  The source shares one mutable visited set along the whole
\* recursion; here every call returns the set as it leaves it.
buildLayoutTree(nodeId, layoutType, allNodes, allEdges, visited) ==
    IF nodeId \in visited
    THEN [tree |-> NullTree, visited |-> visited]
    ELSE IF ~HasNode(allNodes, nodeId)
         THEN [tree |-> NullTree, visited |-> visited \cup {nodeId}]
         ELSE LET r == BuildChildren(ChildIds(allEdges, nodeId), layoutType, allNodes,
                                     allEdges, visited \cup {nodeId}, <<>>)
                  box == Measure(layoutType, r.children)
              IN  [tree |-> [id |-> nodeId, width |-> box.width, height |-> box.height,
                             children |-> r.children],
                   visited |-> r.visited]

RECURSIVE BuildChildren_CopiedVisited(_, _, _, _, _, _)
\* Mutant of BuildChildren: each child is measured with the visited set of the parent,
\* so what one child's subtree visits is unknown to the next child.
BuildChildren_CopiedVisited(childIds, layoutType, allNodes, allEdges, visited, children) ==
    IF childIds = <<>>
    THEN [children |-> children, visited |-> visited]
    ELSE IF KeepsChild(allNodes, Head(childIds))
         THEN LET c == buildLayoutTree(Head(childIds), layoutType, allNodes, allEdges, visited)
              IN  BuildChildren_CopiedVisited(
                      Tail(childIds), layoutType, allNodes, allEdges, visited,
                      IF c.tree.id # 0 THEN Append(children, c.tree) ELSE children)
         ELSE BuildChildren_CopiedVisited(Tail(childIds), layoutType, allNodes, allEdges,
                                          visited, children)

\* The loop "for (const childId of childIds)" of the measurer.
BuildChildren(childIds, layoutType, allNodes, allEdges, visited, children) ==
    IF childIds = <<>>
    THEN [children |-> children, visited |-> visited]
    ELSE IF KeepsChild(allNodes, Head(childIds))
         THEN LET c == buildLayoutTree(Head(childIds), layoutType, allNodes, allEdges, visited)
              IN  BuildChildren(Tail(childIds), layoutType, allNodes, allEdges, c.visited,
                                IF c.tree.id # 0 THEN Append(children, c.tree) ELSE children)
         ELSE BuildChildren(Tail(childIds), layoutType, allNodes, allEdges, visited, children)

(* ------------------------ Position Assigner ---------------------------- *)

\* result.set(id, {x, y}): a later write of the same key replaces the earlier one.
SetPos(result, id, x, y) == (id :> [x |-> x, y |-> y]) @@ result

\* Mutant of SlotStart: the block of slots starts at the parent's own top (left) instead
\* of being centered on the parent, and a stack starts a full GAP_Y below the parent.
SlotStart_NotCentered(treeNode, x, y, layoutType) ==
    CASE layoutType \in {"horizontal-right", "horizontal-left"} -> y
      [] layoutType \in {"vertical-down", "vertical-up"} -> x
      [] OTHER -> y + NODE_HEIGHT + GAP_Y

\* Where the first child's slot starts: the top (left) of the block of slots that is
\* centered on the parent's center, or, in a stack, the line below the parent.
SlotStart(treeNode, x, y, layoutType) ==
    CASE layoutType \in {"horizontal-right", "horizontal-left"} ->
            LET childrenTotalHeight ==
                    Sum(Heights(treeNode.children)) + (Len(treeNode.children) - 1) * GAP_Y
                parentCenterY == y + NODE_HEIGHT \div 2
            IN  parentCenterY - childrenTotalHeight \div 2
      [] layoutType \in {"vertical-down", "vertical-up"} ->
            LET childrenTotalWidth ==
                    Sum(Widths(treeNode.children)) + (Len(treeNode.children) - 1) * GAP_X
                parentCenterX == x + NODE_WIDTH \div 2
            IN  parentCenterX - childrenTotalWidth \div 2
      [] OTHER -> y + NODE_HEIGHT + GAP_Y \div 2

\* Mutant of ChildPos: the two mirrored directions step by the node size only, without
\* the gap.
ChildPos_MirrorNoGap(child, x, y, start, layoutType) ==
    CASE layoutType = "horizontal-right" ->
            [x |-> x + NODE_WIDTH + GAP_X,
             y |-> (start + child.height \div 2) - NODE_HEIGHT \div 2]
      [] layoutType = "horizontal-left" ->
            [x |-> x - NODE_WIDTH,
             y |-> (start + child.height \div 2) - NODE_HEIGHT \div 2]
      [] layoutType = "vertical-down" ->
            [x |-> (start + child.width \div 2) - NODE_WIDTH \div 2,
             y |-> y + NODE_HEIGHT + GAP_Y]
      [] layoutType = "vertical-up" ->
            [x |-> (start + child.width \div 2) - NODE_WIDTH \div 2,
             y |-> y - NODE_HEIGHT]
      [] OTHER -> [x |-> x, y |-> start]

\* Mutant of ChildPos: the child's node is put at the start of its slot instead of
\* the middle of it.
ChildPos_SlotStart(child, x, y, start, layoutType) ==
    CASE layoutType = "horizontal-right" -> [x |-> x + NODE_WIDTH + GAP_X, y |-> start]
      [] layoutType = "horizontal-left" -> [x |-> x - (NODE_WIDTH + GAP_X), y |-> start]
      [] layoutType = "vertical-down" -> [x |-> start, y |-> y + NODE_HEIGHT + GAP_Y]
      [] layoutType = "vertical-up" -> [x |-> start, y |-> y - (NODE_HEIGHT + GAP_Y)]
      [] OTHER -> [x |-> x, y |-> start]

\* The position of a child's node whose slot starts at start.
ChildPos(child, x, y, start, layoutType) ==
    CASE layoutType = "horizontal-right" ->
            [x |-> x + NODE_WIDTH + GAP_X,
             y |-> (start + child.height \div 2) - NODE_HEIGHT \div 2]
      [] layoutType = "horizontal-left" ->
            [x |-> x - (NODE_WIDTH + GAP_X),
             y |-> (start + child.height \div 2) - NODE_HEIGHT \div 2]
      [] layoutType = "vertical-down" ->
            [x |-> (start + child.width \div 2) - NODE_WIDTH \div 2,
             y |-> y + NODE_HEIGHT + GAP_Y]
      [] layoutType = "vertical-up" ->
            [x |-> (start + child.width \div 2) - NODE_WIDTH \div 2,
             y |-> y - (NODE_HEIGHT + GAP_Y)]
      [] OTHER -> [x |-> x, y |-> start]

\* Mutant of NextSlot: the gap between two slots is left out.
NextSlot_NoGap(child, start, layoutType) ==
    CASE layoutType \in {"horizontal-right", "horizontal-left"} -> start + child.height
      [] layoutType \in {"vertical-down", "vertical-up"} -> start + child.width
      [] OTHER -> start + child.height

\* Mutant of NextSlot: the slot advances by the size of the child's node instead of
\* the size of the child's subtree.
NextSlot_NodeSize(child, start, layoutType) ==
    CASE layoutType \in {"horizontal-right", "horizontal-left"} -> start + NODE_HEIGHT + GAP_Y
      [] layoutType \in {"vertical-down", "vertical-up"} -> start + NODE_WIDTH + GAP_X
      [] OTHER -> start + NODE_HEIGHT + GAP_Y \div 2

\* Where the next child's slot starts.
NextSlot(child, start, layoutType) ==
    CASE layoutType \in {"horizontal-right", "horizontal-left"} -> start + child.height + GAP_Y
      [] layoutType \in {"vertical-down", "vertical-up"} -> start + child.width + GAP_X
      [] OTHER -> start + child.height + GAP_Y \div 2

RECURSIVE applyPositions(_, _, _, _, _)
RECURSIVE PlaceChildren(_, _, _, _, _, _)

\* The assigner: writes the node's own position, then those of its children's subtrees.
applyPositions(treeNode, x, y, layoutType, result) ==
    IF Len(treeNode.children) = 0 \/ layoutType \notin LayoutDirection
    THEN SetPos(result, treeNode.id, x, y)
    ELSE PlaceChildren(treeNode.children, x, y, SlotStart(treeNode, x, y, layoutType),
                       layoutType, SetPos(result, treeNode.id, x, y))

\* The loop "treeNode.children.forEach(child => ...)" of the assigner.
PlaceChildren(children, x, y, start, layoutType, result) ==
    IF children = <<>>
    THEN result
    ELSE LET child == Head(children)
             p == ChildPos(child, x, y, start, layoutType)
         IN  PlaceChildren(Tail(children), x, y, NextSlot(child, start, layoutType), layoutType,
                           applyPositions(child, p.x, p.y, layoutType, result))

(* ------------------------ Layout Controller ---------------------------- *)

\* The dimension tree of a pass rooted at rootId.
TreeOf(rootId, layoutType, allNodes, allEdges) ==
    buildLayoutTree(rootId, layoutType, allNodes, allEdges, {}).tree

\* Mutant of UpdateNode: a node another pass has locked already is left where it is.
UpdateNode_FirstWins(n, rootId, newPositions) ==
    IF n.id \in DOMAIN newPositions /\ (n.draggable \/ n.id = rootId)
    THEN [n EXCEPT !.x = newPositions[n.id].x,
                   !.y = newPositions[n.id].y,
                   !.draggable = (n.id = rootId)]
    ELSE n

\* Mutant of UpdateNode: every node but the root is locked, positioned or not.
UpdateNode_LocksAll(n, rootId, newPositions) ==
    IF n.id \in DOMAIN newPositions
    THEN [n EXCEPT !.x = newPositions[n.id].x,
                   !.y = newPositions[n.id].y,
                   !.draggable = (n.id = rootId)]
    ELSE [n EXCEPT !.draggable = FALSE]

\* Mutant of UpdateNode: the pass moves the node but leaves its draggable flag alone.
UpdateNode_KeepsDraggable(n, rootId, newPositions) ==
    IF n.id \in DOMAIN newPositions
    THEN [n EXCEPT !.x = newPositions[n.id].x, !.y = newPositions[n.id].y]
    ELSE n

\* Mutant of UpdateNode: the computed position is added to the node's position instead
\* of replacing it.
UpdateNode_Relative(n, rootId, newPositions) ==
    IF n.id \in DOMAIN newPositions
    THEN [n EXCEPT !.x = @ + newPositions[n.id].x,
                   !.y = @ + newPositions[n.id].y,
                   !.draggable = (n.id = rootId)]
    ELSE n

\* Step 3 of runLayout for one node: a node the pass positioned takes its new
\* position and is draggable only if it is the root of the pass.
UpdateNode(n, rootId, newPositions) ==
    IF n.id \in DOMAIN newPositions
    THEN [n EXCEPT !.x = newPositions[n.id].x,
                   !.y = newPositions[n.id].y,
                   !.draggable = (n.id = rootId)]
    ELSE n

runLayout(rootNode, allNodes, allEdges) ==
    IF rootNode.layoutType = NoLayout
    THEN allNodes
    ELSE LET treeRoot == TreeOf(rootNode.id, rootNode.layoutType, allNodes, allEdges)
         IN  IF treeRoot.id = 0
             THEN allNodes
             ELSE LET newPositions ==
                          applyPositions(treeRoot, rootNode.x, rootNode.y,
                                         rootNode.layoutType, <<>>)
                  IN  [i \in DOMAIN allNodes |->
                          UpdateNode(allNodes[i], rootNode.id, newPositions)]

\* allNodes.map(n => n.id === id ? replacement : n)
ReplaceNode(allNodes, id, replacement) ==
    [i \in DOMAIN allNodes |-> IF allNodes[i].id = id THEN replacement ELSE allNodes[i]]

\* The state updater of applyLayout.
applyLayout(rootNodeId, layoutType, currentNodes, allEdges) ==
    IF ~HasNode(currentNodes, rootNodeId)
    THEN currentNodes
    ELSE LET root == FindNode(currentNodes, rootNodeId)
             updatedRoot == [root EXCEPT !.layoutType = layoutType]
             otherNodes == ReplaceNode(currentNodes, rootNodeId, updatedRoot)
         IN  runLayout(updatedRoot, otherNodes, allEdges)

\* Mutant of onNodeDrag: the dragged node is written back and the pass is run whether
\* or not the node owns a layout.
onNodeDrag_NoGuard(node, currentNodes, allEdges) ==
    runLayout(node, ReplaceNode(currentNodes, node.id, node), allEdges)

\* Mutant of onNodeDrag: the pass is anchored at the node as the collection holds it,
\* not at the dragged node the event carries.
onNodeDrag_StaleRoot(node, currentNodes, allEdges) ==
    IF node.layoutType # NoLayout /\ HasNode(currentNodes, node.id)
    THEN runLayout(FindNode(currentNodes, node.id), currentNodes, allEdges)
    ELSE currentNodes

\* The state updater of onNodeDrag; node is the dragged node as the canvas reports it.
onNodeDrag(node, currentNodes, allEdges) ==
    IF node.layoutType # NoLayout
    THEN runLayout(node, ReplaceNode(currentNodes, node.id, node), allEdges)
    ELSE currentNodes

(* ----------------------- Lock/Unlock Traversal ------------------------- *)

\* Mutant of ClearTarget: every node loses its layoutType and becomes draggable, not
\* only the target.
ClearTarget_ClearsAll(nds, nodeId) ==
    [i \in DOMAIN nds |->
        IF HasNode(nds, nodeId)
        THEN [nds[i] EXCEPT !.layoutType = NoLayout, !.draggable = TRUE]
        ELSE nds[i]]

\* Step 1 of clearLayout: the target loses its layoutType and becomes draggable.
ClearTarget(nds, nodeId) ==
    [i \in DOMAIN nds |->
        IF nds[i].id = nodeId
        THEN [nds[i] EXCEPT !.layoutType = NoLayout, !.draggable = TRUE]
        ELSE nds[i]]

\* Mutant of Unlocks: a target is pushed again although it has been visited.
Unlocks_NoVisited(nodesMap, visited, target) ==
    /\ HasNode(nodesMap, target)
    /\ FindNode(nodesMap, target).layoutType = NoLayout

\* Mutant of Unlocks: the traversal does not stop at a node that owns a layout.
Unlocks_IgnoresLayout(nodesMap, visited, target) ==
    /\ target \notin visited
    /\ HasNode(nodesMap, target)

\* Whether the traversal unlocks and enters the target of an edge.
Unlocks(nodesMap, visited, target) ==
    /\ target \notin visited
    /\ HasNode(nodesMap, target)
    /\ FindNode(nodesMap, target).layoutType = NoLayout

\* child.draggable = true
Unlock(nodesMap, id) ==
    [i \in DOMAIN nodesMap |->
        IF nodesMap[i].id = id THEN [nodesMap[i] EXCEPT !.draggable = TRUE] ELSE nodesMap[i]]

\* Mutant of UnlockChildren: the targets are unlocked but never pushed on the stack,
\* so only the immediate children of the cleared node are reached.
UnlockChildren_NoPush(targets, visited, stack, nodesMap) ==
    [stack |-> stack,
     nodesMap |-> [i \in DOMAIN nodesMap |->
                      IF \E k \in DOMAIN targets :
                            /\ targets[k] = nodesMap[i].id
                            /\ targets[k] \notin visited
                            /\ nodesMap[i].layoutType = NoLayout
                      THEN [nodesMap[i] EXCEPT !.draggable = TRUE]
                      ELSE nodesMap[i]]]

RECURSIVE UnlockChildren(_, _, _, _)
\* childEdges.forEach(e => ...): the stack and the map after the edges of one node.
UnlockChildren(targets, visited, stack, nodesMap) ==
    IF targets = <<>>
    THEN [stack |-> stack, nodesMap |-> nodesMap]
    ELSE IF Unlocks(nodesMap, visited, Head(targets))
         THEN UnlockChildren(Tail(targets), visited, Append(stack, Head(targets)),
                             Unlock(nodesMap, Head(targets)))
         ELSE UnlockChildren(Tail(targets), visited, stack, nodesMap)

\* Mutant of UnlockLoop: the traversal is skipped, only the target itself is cleared.
UnlockLoop_NoTraversal(stack, visited, nodesMap, allEdges) == nodesMap

RECURSIVE UnlockLoop(_, _, _, _)
\* while (stack.length > 0) { curr = stack.pop(); visited.add(curr); ... }
UnlockLoop(stack, visited, nodesMap, allEdges) ==
    IF stack = <<>>
    THEN nodesMap
    ELSE LET curr == stack[Len(stack)]
             seen == visited \cup {curr}
             r == UnlockChildren(ChildIds(allEdges, curr), seen,
                                 SubSeq(stack, 1, Len(stack) - 1), nodesMap)
         IN  UnlockLoop(r.stack, seen, r.nodesMap, allEdges)

\* The state updater of clearLayout.
clearLayout(nodeId, nds, allEdges) ==
    UnlockLoop(<<nodeId>>, {}, ClearTarget(nds, nodeId), allEdges)

(* --------------------------- state machine ----------------------------- *)

\* A node as a user action creates it: draggable, no layoutType.
FreshNode(i) ==
    [id |-> i, x |-> 200 * (i - 1), y |-> 100 * (i - 1), draggable |-> TRUE,
     layoutType |-> NoLayout]

NodeIds(allNodes) == {allNodes[i].id : i \in DOMAIN allNodes}

\* The ids an event can name: those of the nodes and those the edges mention.
KnownIds == NodeIds(nodes) \cup {edges[i].source : i \in DOMAIN edges}
                           \cup {edges[i].target : i \in DOMAIN edges}

EdgesOver(ids) == [source : ids, target : ids]

\* How far a drag gesture moves the node it holds.
DragDelta == [x |-> 100, y |-> 50]

\* The node a drag event carries: the node of the collection at its new position, or,
\* for an id that is no longer in the collection, a stale copy of the deleted node.
DraggedNodes(id) ==
    IF HasNode(nodes, id)
    THEN {[FindNode(nodes, id) EXCEPT !.x = @ + DragDelta.x, !.y = @ + DragDelta.y]}
    ELSE {[id |-> id, x |-> DragDelta.x, y |-> DragDelta.y, draggable |-> TRUE,
           layoutType |-> t] : t \in LayoutDirection \cup {NoLayout}}

NoOp == [op |-> "init", id |-> 0, dir |-> NoLayout, x |-> 0, y |-> 0]

\* The application around the canvas is not followed.
NoApp == [followed |-> FALSE]

\* No traversal is in progress.
IdleRun == [phase |-> "idle", op |-> NoOp, stack |-> <<>>, visited |-> {}]

\* Any graph over MaxNodes ids with at most MaxEdges edges (self-loops, cycles,
\* duplicate edges, several parents); the last id may be missing from the nodes.
Init ==
    /\ \E k \in {MaxNodes - 1, MaxNodes} : nodes = [i \in 1..k |-> FreshNode(i)]
    /\ \E n \in 0..MaxEdges : edges \in [1..n -> EdgesOver(1..MaxNodes)]
    /\ last = NoOp
    /\ pre = nodes
    /\ budget = MaxSteps
    /\ timers = <<>>
    /\ run = IdleRun
    /\ app = NoApp

\* The edges parent[i] -> i of a tree over 1..n, in the order of the children's ids.
TreeEdges(parent, n) == [i \in 1..(n - 1) |-> [source |-> parent[i + 1], target |-> i + 1]]

\* A tree of MaxPassNodes nodes rooted at node 1, then at most MaxExtraEdges arbitrary
\* further edges.
InitPass ==
    /\ nodes = [i \in 1..MaxPassNodes |-> FreshNode(i)]
    /\ \E parent \in [2..MaxPassNodes -> 1..MaxPassNodes] :
       \E n \in 0..MaxExtraEdges :
       \E extra \in [1..n -> EdgesOver(1..MaxPassNodes)] :
          /\ \A i \in 2..MaxPassNodes : parent[i] < i
          /\ edges = TreeEdges(parent, MaxPassNodes) \o extra
    /\ last = NoOp
    /\ pre = nodes
    /\ budget = MaxPassSteps
    /\ timers = <<>>
    /\ run = IdleRun
    /\ app = NoApp

\* A tree of MaxWideNodes nodes rooted at node 1.
InitWide ==
    /\ nodes = [i \in 1..MaxWideNodes |-> FreshNode(i)]
    /\ \E parent \in [2..MaxWideNodes -> 1..MaxWideNodes] :
          /\ \A i \in 2..MaxWideNodes : parent[i] < i
          /\ edges = TreeEdges(parent, MaxWideNodes)
    /\ last = NoOp
    /\ pre = nodes
    /\ budget = MaxWideSteps
    /\ timers = <<>>
    /\ run = IdleRun
    /\ app = NoApp

\* A layout direction is chosen in the context menu of node id.
ApplyLayout(id, d) ==
    /\ budget > 0
    /\ nodes' = applyLayout(id, d, nodes, edges)
    /\ last' = [op |-> "apply", id |-> id, dir |-> d, x |-> 0, y |-> 0]
    /\ pre' = nodes
    /\ budget' = budget - 1
    /\ UNCHANGED <<edges, timers, run, app>>

\* "Clear Layout" is chosen in the context menu of node id.
ClearLayout(id) ==
    /\ budget > 0
    /\ nodes' = clearLayout(id, nodes, edges)
    /\ last' = [op |-> "clear", id |-> id, dir |-> NoLayout, x |-> 0, y |-> 0]
    /\ pre' = nodes
    /\ budget' = budget - 1
    /\ UNCHANGED <<edges, timers, run, app>>

\* The canvas reports a drag of node id.
OnNodeDrag(id) ==
    /\ budget > 0
    /\ \E node \in DraggedNodes(id) :
          /\ nodes' = onNodeDrag(node, nodes, edges)
          /\ last' = [op |-> "drag", id |-> id, dir |-> node.layoutType,
                      x |-> node.x, y |-> node.y]
    /\ pre' = nodes
    /\ budget' = budget - 1
    /\ UNCHANGED <<edges, timers, run, app>>

Next ==
    \/ \E id \in KnownIds, d \in LayoutDirection : ApplyLayout(id, d)
    \/ \E id \in KnownIds : ClearLayout(id)
    \/ \E id \in KnownIds : OnNodeDrag(id)

Spec == Init /\ [][Next]_vars

SpecPass == InitPass /\ [][Next]_vars

SpecWide == InitWide /\ [][Next]_vars

(* ------------------------- editing the graph --------------------------- *)

\* `node_${Date.now()}`: an id no node bears yet.
NewId(allNodes) == Len(allNodes) + 1

\* Where "Add Node" (a random position) or a double click (the pointer) puts a node.
AddPositions == {[x |-> 100, y |-> 100], [x |-> 300, y |-> 400]}

\* The node addNode creates: no draggable attribute, no layoutType.
addNode(position, nds) ==
    Append(nds, [id |-> NewId(nds), x |-> position.x, y |-> position.y,
                 draggable |-> TRUE, layoutType |-> NoLayout])

\* Mutant of childNode: the child is created locked under every parent.
childNode_AlwaysLocked(parent, newId) ==
    [id |-> newId, x |-> parent.x + 200, y |-> parent.y,
     draggable |-> FALSE, layoutType |-> NoLayout]

\* The node the Tab handler creates beside the selected parent.
childNode(parent, newId) ==
    [id |-> newId, x |-> parent.x + 200, y |-> parent.y,
     draggable |-> (parent.layoutType = NoLayout), layoutType |-> NoLayout]

\* addEdge of the canvas library: an edge between the same two nodes is not added twice.
addEdge(newEdge, eds) ==
    IF \E i \in DOMAIN eds : eds[i] = newEdge THEN eds ELSE Append(eds, newEdge)

\* An empty canvas with one or two free nodes.
InitEdit ==
    /\ \E k \in 1..2 : nodes = [i \in 1..k |-> FreshNode(i)]
    /\ edges = <<>>
    /\ last = NoOp
    /\ pre = nodes
    /\ budget = MaxEditSteps
    /\ timers = <<>>
    /\ run = IdleRun
    /\ app = NoApp

\* "Add Node" is pressed or the pane is double-clicked.
AddNode(position) ==
    /\ budget > 0
    /\ Len(nodes) < MaxEditNodes
    /\ nodes' = addNode(position, nodes)
    /\ last' = [op |-> "add", id |-> NewId(nodes), dir |-> NoLayout,
                x |-> position.x, y |-> position.y]
    /\ pre' = nodes
    /\ budget' = budget - 1
    /\ UNCHANGED <<edges, timers, run, app>>

\* Tab is pressed while node parentId is the one selected node.  The callback handed
\* to setTimeout calls the applyLayout of the render the handler belongs to, whose
\* edges are those before the new edge.
TabAddChild(parentId) ==
    /\ budget > 0
    /\ Len(nodes) < MaxEditNodes
    /\ HasNode(nodes, parentId)
    /\ LET parent == FindNode(nodes, parentId)
           parentLayout == parent.layoutType
           newId == NewId(nodes)
           child == childNode(parent, newId)
       IN  /\ nodes' = Append(nodes, child)
           /\ edges' = addEdge([source |-> parentId, target |-> newId], edges)
           /\ timers' = IF parentLayout # NoLayout
                        THEN Append(timers, [id |-> parentId, dir |-> parentLayout,
                                             edges |-> edges, child |-> newId])
                        ELSE timers
           /\ last' = [op |-> "tab", id |-> parentId, dir |-> parentLayout,
                       x |-> child.x, y |-> child.y, child |-> newId]
    /\ pre' = nodes
    /\ budget' = budget - 1
    /\ UNCHANGED <<run, app>>

\* The oldest pending callback runs: applyLayout with the edges its closure holds.
TimerFires ==
    /\ timers # <<>>
    /\ LET t == Head(timers)
       IN  /\ nodes' = applyLayout(t.id, t.dir, nodes, t.edges)
           /\ last' = [op |-> "timer", id |-> t.id, dir |-> t.dir, x |-> 0, y |-> 0,
                       child |-> t.child, edges |-> t.edges]
    /\ timers' = Tail(timers)
    /\ pre' = nodes
    /\ UNCHANGED <<edges, budget, run, app>>

NextEdit ==
    \/ \E id \in KnownIds, d \in LayoutDirection : ApplyLayout(id, d)
    \/ \E id \in KnownIds : ClearLayout(id)
    \/ \E id \in KnownIds : OnNodeDrag(id)
    \/ \E position \in AddPositions : AddNode(position)
    \/ \E parentId \in NodeIds(nodes) : TabAddChild(parentId)
    \/ TimerFires

SpecEdit == InitEdit /\ [][NextEdit]_vars

(* --------------------- the traversals, call by call -------------------- *)

\* The directions tried when the traversals are followed; the traversals do not read
\* the direction.
TermDirections == {"horizontal-right", "vertical-stack"}

\* The node an operation hands to the layout pass: the stored node with the new
\* layoutType (applyLayout) or the dragged node (onNodeDrag).
RunRoot(op) ==
    IF HasNode(nodes, op.id)
    THEN [FindNode(nodes, op.id) EXCEPT !.layoutType = op.dir,
                                        !.x = IF op.op = "drag" THEN op.x ELSE @,
                                        !.y = IF op.op = "drag" THEN op.y ELSE @]
    ELSE [id |-> op.id, x |-> op.x, y |-> op.y, draggable |-> TRUE,
          layoutType |-> op.dir]

\* The collection the measuring recursion reads.
RunNodes(op) == ReplaceNode(nodes, op.id, RunRoot(op))

\* Entering buildLayoutTree(nodeId): return null when visited or missing, else open a
\* frame with the children still to be looked at.
Call(nodeId, allNodes, stack, visited) ==
    IF nodeId \in visited
    THEN [stack |-> stack, visited |-> visited]
    ELSE IF ~HasNode(allNodes, nodeId)
         THEN [stack |-> stack, visited |-> visited \cup {nodeId}]
         ELSE [stack |-> Append(stack, [id |-> nodeId,
                                        todo |-> ChildIds(edges, nodeId)]),
               visited |-> visited \cup {nodeId}]

\* A graph of MaxNodes free nodes with any edge list, cycles, self-loops, duplicate
\* edges and several parents included.
InitTerm ==
    /\ nodes = [i \in 1..MaxNodes |-> FreshNode(i)]
    /\ \E n \in 0..MaxTermEdges : edges \in [1..n -> EdgesOver(1..MaxNodes)]
    /\ last = NoOp
    /\ pre = nodes
    /\ budget = MaxTermSteps
    /\ timers = <<>>
    /\ run = IdleRun
    /\ app = NoApp

\* An operation is taken up: its traversal starts.
Start(op, r) ==
    /\ run.phase = "idle"
    /\ budget > 0
    /\ run' = [phase |-> IF op.op = "clear" THEN "clear" ELSE "measure", op |-> op,
               stack |-> r.stack, visited |-> r.visited]
    /\ budget' = budget - 1
    /\ UNCHANGED <<nodes, edges, last, pre, timers, app>>

\* applyLayout(id, d): no pass when the root is missing.
StartApply(id, d) ==
    LET op == [op |-> "apply", id |-> id, dir |-> d, x |-> 0, y |-> 0]
    IN  Start(op, IF HasNode(nodes, id)
                  THEN Call(id, RunNodes(op), <<>>, {})
                  ELSE [stack |-> <<>>, visited |-> {}])

\* onNodeDrag(node): no pass when the node owns no layout.
StartDrag(id) ==
    \E node \in DraggedNodes(id) :
        LET op == [op |-> "drag", id |-> id, dir |-> node.layoutType,
                   x |-> node.x, y |-> node.y]
        IN  Start(op, IF node.layoutType # NoLayout
                      THEN Call(id, RunNodes(op), <<>>, {})
                      ELSE [stack |-> <<>>, visited |-> {}])

\* clearLayout(id): const stack = [nodeId]; const visited = new Set().
StartClear(id) ==
    Start([op |-> "clear", id |-> id, dir |-> NoLayout, x |-> 0, y |-> 0],
          [stack |-> <<id>>, visited |-> {}])

\* One step of the measuring recursion: the innermost call looks at its next child
\* (and calls itself on it when the child is kept) or returns.
StepMeasure ==
    /\ run.phase = "measure"
    /\ run.stack # <<>>
    /\ Len(run.stack) <= MaxTermStack
    /\ LET depth == Len(run.stack)
           top == run.stack[depth]
       IN  IF top.todo = <<>>
           THEN run' = [run EXCEPT !.stack = SubSeq(run.stack, 1, depth - 1)]
           ELSE LET rest == [run.stack EXCEPT ![depth].todo = Tail(top.todo)]
                    r == IF KeepsChild(RunNodes(run.op), Head(top.todo))
                         THEN Call(Head(top.todo), RunNodes(run.op), rest, run.visited)
                         ELSE [stack |-> rest, visited |-> run.visited]
                IN  run' = [run EXCEPT !.stack = r.stack, !.visited = r.visited]
    /\ UNCHANGED <<nodes, edges, last, pre, budget, timers, app>>

\* One turn of the while loop of clearLayout.  Unlocks reads the layoutType of the
\* targets only, which the loop never changes.
StepClear ==
    /\ run.phase = "clear"
    /\ run.stack # <<>>
    /\ Len(run.stack) <= MaxTermStack
    /\ LET depth == Len(run.stack)
           curr == run.stack[depth]
           seen == run.visited \cup {curr}
           r == UnlockChildren(ChildIds(edges, curr), seen,
                               SubSeq(run.stack, 1, depth - 1),
                               ClearTarget(nodes, run.op.id))
       IN  run' = [run EXCEPT !.stack = r.stack, !.visited = seen]
    /\ UNCHANGED <<nodes, edges, last, pre, budget, timers, app>>

\* The traversal is over: the operation returns the new collection.
Finish ==
    /\ run.phase # "idle"
    /\ run.stack = <<>>
    /\ nodes' = CASE run.op.op = "apply" ->
                       applyLayout(run.op.id, run.op.dir, nodes, edges)
                  [] run.op.op = "drag" -> onNodeDrag(RunRoot(run.op), nodes, edges)
                  [] OTHER -> clearLayout(run.op.id, nodes, edges)
    /\ last' = run.op
    /\ pre' = nodes
    /\ run' = [run EXCEPT !.phase = "idle"]
    /\ UNCHANGED <<edges, budget, timers, app>>

NextTerm ==
    \/ \E id \in KnownIds, d \in TermDirections : StartApply(id, d)
    \/ \E id \in KnownIds : StartDrag(id)
    \/ \E id \in KnownIds : StartClear(id)
    \/ StepMeasure
    \/ StepClear
    \/ Finish

\* The handlers run to completion: a traversal that can take a step takes it.
SpecTerm ==
    /\ InitTerm
    /\ [][NextTerm]_vars
    /\ WF_vars(StepMeasure)
    /\ WF_vars(StepClear)

(* ------------------ the application around the canvas ----------------- *)

\* null of parentId, folderId, activeFileId and editingNodeId.
Null == 0

\* The values a note is given in the note panel.
Notes == {"a", "b"}

\* A node record with its data.note.
WithNote(n, note) ==
    [k \in DOMAIN n \cup {"note"} |-> IF k = "note" THEN note ELSE n[k]]

initialFolders ==
    << [id |-> 1, parentId |-> Null],
       [id |-> 2, parentId |-> Null],
       [id |-> 3, parentId |-> 2] >>

initialFiles ==
    << [id |-> 1, folderId |-> 1,
        content |->
          [nodes |-> << WithNote([FreshNode(1) EXCEPT !.x = 0, !.y = 0], "key"),
                        WithNote([FreshNode(2) EXCEPT !.x = 200, !.y = -100], ""),
                        WithNote([FreshNode(3) EXCEPT !.x = 200, !.y = 100], "") >>,
           edges |-> << [source |-> 1, target |-> 2], [source |-> 1, target |-> 3] >>]] >>

\* No note edit has been stored yet.
NoEdit == [file |-> Null, node |-> Null, note |-> ""]

\* files.find(f => f.id === activeFileId), as an index; 0 when there is none.
ActiveIndex(files, activeFileId) == FindIndex(files, activeFileId)

handleCreateFolder(folders, newId, parentId) ==
    Append(folders, [id |-> newId, parentId |-> parentId])

handleCreateFile(files, newId, folderId) ==
    Append(files, [id |-> newId, folderId |-> folderId,
                   content |-> [nodes |-> <<>>, edges |-> <<>>]])

\* The folder and the folders and files directly in it are removed; activeFileId is
\* not touched.
handleDeleteFolder(folders, files, id) ==
    [folders |-> SelectSeq(folders, LAMBDA f : f.id # id /\ f.parentId # id),
     files |-> SelectSeq(files, LAMBDA f : f.folderId # id)]

handleDeleteFile(files, activeFileId, id) ==
    [files |-> SelectSeq(files, LAMBDA f : f.id # id),
     activeFileId |-> IF activeFileId = id THEN Null ELSE activeFileId]

handleSaveWhiteboard(files, fileId, boardNodes, boardEdges) ==
    [i \in DOMAIN files |->
        IF files[i].id = fileId
        THEN [files[i] EXCEPT !.content = [nodes |-> boardNodes, edges |-> boardEdges]]
        ELSE files[i]]

\* The note of node editingNodeId in the stored content of the active file.
handleNoteChange(files, activeFileId, editingNodeId, newHtml) ==
    [i \in DOMAIN files |->
        IF files[i].id = activeFileId
        THEN [files[i] EXCEPT !.content.nodes =
                 [j \in DOMAIN @ |->
                     IF @[j].id = editingNodeId THEN [@[j] EXCEPT !.note = newHtml]
                     ELSE @[j]]]
        ELSE files[i]]

\* The canvas after the application has rendered: the whiteboard is mounted while
\* there is an active file; its effect loads the stored content when the file id
\* differs from fileIdRef, or when the canvas is empty and the stored content is not.
\* The effect runs on mount and when file.id or file.content has changed.
SyncBoard(files, activeFileId, fileIdRef, boardNodes, boardEdges, contentChanged) ==
    LET i == ActiveIndex(files, activeFileId)
    IN  IF i = 0
        THEN [nodes |-> <<>>, edges |-> <<>>, ref |-> Null]
        ELSE LET content == files[i].content
                 mounting == fileIdRef = Null
                 held == IF mounting THEN <<>> ELSE boardNodes
                 heldEdges == IF mounting THEN <<>> ELSE boardEdges
             IN  IF ~mounting /\ files[i].id # fileIdRef
                 THEN [nodes |-> content.nodes, edges |-> content.edges,
                       ref |-> files[i].id]
                 ELSE IF (mounting \/ contentChanged)
                         /\ Len(held) = 0 /\ Len(content.nodes) > 0
                      THEN [nodes |-> content.nodes, edges |-> content.edges,
                            ref |-> files[i].id]
                      ELSE [nodes |-> held, edges |-> heldEdges, ref |-> files[i].id]

\* The application as it starts: the mock folders and files, file 1 active and shown.
InitApp ==
    /\ app = [followed |-> TRUE, folders |-> initialFolders, files |-> initialFiles,
              activeFileId |-> 1, panelOpen |-> FALSE, editingNodeId |-> Null,
              fileIdRef |-> 1, clock |-> 0, edit |-> NoEdit]
    /\ nodes = initialFiles[1].content.nodes
    /\ edges = initialFiles[1].content.edges
    /\ last = NoOp
    /\ pre = nodes
    /\ budget = MaxAppSteps
    /\ timers = <<>>
    /\ run = IdleRun

\* `f_${Date.now()}`, `w_${Date.now()}`: an id never given before.
FreshId == 10 + app.clock

FolderIds == {app.folders[i].id : i \in DOMAIN app.folders}

FileIds == {app.files[i].id : i \in DOMAIN app.files}

\* A handler has run with result a; the application renders and the whiteboard's
\* effect runs.
Commit(a, boardNodes, op, contentChanged) ==
    /\ budget > 0
    /\ LET b == SyncBoard(a.files, a.activeFileId, app.fileIdRef, boardNodes, edges,
                          contentChanged)
       IN  /\ app' = [a EXCEPT !.fileIdRef = b.ref]
           /\ nodes' = b.nodes
           /\ edges' = b.edges
    /\ last' = op
    /\ pre' = nodes
    /\ budget' = budget - 1
    /\ UNCHANGED <<timers, run>>

AppOp(name, id) == [op |-> name, id |-> id, dir |-> NoLayout, x |-> 0, y |-> 0]

\* The sidebar's "New Folder" button: always at the root.
CreateFolder ==
    /\ app.clock < MaxAppCreates
    /\ Commit([app EXCEPT !.folders = handleCreateFolder(@, FreshId, Null),
                          !.clock = @ + 1],
              nodes, AppOp("createFolder", FreshId), FALSE)

\* "New Whiteboard" at the root or the "new file" button of a folder.
CreateFile(folderId) ==
    /\ app.clock < MaxAppCreates
    /\ Commit([app EXCEPT !.files = handleCreateFile(@, FreshId, folderId),
                          !.activeFileId = FreshId,
                          !.clock = @ + 1],
              nodes, AppOp("createFile", FreshId), FALSE)

DeleteFolder(id) ==
    LET r == handleDeleteFolder(app.folders, app.files, id)
    IN  Commit([app EXCEPT !.folders = r.folders, !.files = r.files],
               nodes, AppOp("deleteFolder", id), FALSE)

DeleteFile(id) ==
    LET r == handleDeleteFile(app.files, app.activeFileId, id)
    IN  Commit([app EXCEPT !.files = r.files, !.activeFileId = r.activeFileId],
               nodes, AppOp("deleteFile", id), FALSE)

\* onSelectFile: the file becomes active and the note panel closes.
SelectFile(id) ==
    Commit([app EXCEPT !.activeFileId = id, !.panelOpen = FALSE],
           nodes, AppOp("selectFile", id), FALSE)

\* Ctrl-click on a node of the canvas: the note panel opens on it.
NodeClick(nodeId) ==
    /\ HasNode(nodes, nodeId)
    /\ Commit([app EXCEPT !.editingNodeId = nodeId, !.panelOpen = TRUE],
              nodes, AppOp("nodeClick", nodeId), FALSE)

\* The note is edited in the open panel.  app.edit remembers the last edit that
\* reached a node of the stored content.
NoteChange(newHtml) ==
    /\ app.panelOpen
    /\ app.editingNodeId # Null
    /\ ActiveIndex(app.files, app.activeFileId) # 0
    /\ LET stored == app.files[ActiveIndex(app.files, app.activeFileId)].content.nodes
       IN  Commit([app EXCEPT
                     !.files = handleNoteChange(@, app.activeFileId,
                                                app.editingNodeId, newHtml),
                     !.edit = IF HasNode(stored, app.editingNodeId)
                              THEN [file |-> app.activeFileId,
                                    node |-> app.editingNodeId, note |-> newHtml]
                              ELSE @],
                  nodes, AppOp("noteChange", app.editingNodeId), TRUE)

\* "Add Node" on the canvas of the active file.
CanvasAdd(position) ==
    /\ app.fileIdRef # Null
    /\ Len(nodes) < MaxAppNodes
    /\ LET added == addNode(position, nodes)
       IN  Commit(app, [added EXCEPT ![Len(added)] = WithNote(@, "")],
                  AppOp("add", NewId(nodes)), FALSE)

\* "Save Board": handleSave hands the canvas to handleSaveWhiteboard.
Save ==
    /\ app.fileIdRef # Null
    /\ Commit([app EXCEPT !.files = handleSaveWhiteboard(@, app.fileIdRef, nodes, edges)],
              nodes, AppOp("save", app.fileIdRef), TRUE)

NextApp ==
    \/ CreateFolder
    \/ \E folderId \in FolderIds \cup {Null} : CreateFile(folderId)
    \/ \E id \in FolderIds : DeleteFolder(id)
    \/ \E id \in FileIds : DeleteFile(id)
    \/ \E id \in FileIds : SelectFile(id)
    \/ \E nodeId \in NodeIds(nodes) : NodeClick(nodeId)
    \/ \E newHtml \in Notes : NoteChange(newHtml)
    \/ \E position \in AddPositions : CanvasAdd(position)
    \/ Save

SpecApp == InitApp /\ [][NextApp]_vars

(* ------------------- vocabulary of the properties ---------------------- *)

RECURSIVE TreeIds(_)
RECURSIVE ForestIds(_)
\* The node ids of a dimension tree.
TreeIds(tree) == IF tree.id = 0 THEN {} ELSE {tree.id} \cup ForestIds(tree.children)

ForestIds(children) ==
    IF children = <<>> THEN {} ELSE TreeIds(Head(children)) \cup ForestIds(Tail(children))

RECURSIVE TreeSize(_)
RECURSIVE ForestSize(_)
\* The number of nodes of a dimension tree, counting repetitions.
TreeSize(tree) == IF tree.id = 0 THEN 0 ELSE 1 + ForestSize(tree.children)

ForestSize(children) ==
    IF children = <<>> THEN 0 ELSE TreeSize(Head(children)) + ForestSize(Tail(children))

EdgeSet == {edges[i] : i \in DOMAIN edges}

LayoutOf(allNodes, id) ==
    IF HasNode(allNodes, id) THEN FindNode(allNodes, id).layoutType ELSE NoLayout

IsRoot(allNodes, id) == LayoutOf(allNodes, id) # NoLayout

RECURSIVE FreeReach(_, _)
\* The ids reachable from the ids of S along edges whose targets exist and bear no
\* layoutType: the paths that pass through no (other) layout root.
FreeReach(S, allNodes) ==
    LET more == S \cup {e.target : e \in {f \in EdgeSet :
                            f.source \in S /\ KeepsChild(allNodes, f.target)}}
    IN  IF more = S THEN S ELSE FreeReach(more, allNodes)

\* The nodes a layout root governs: reachable from it through no other layout root.
ManagedBy(root, allNodes) == FreeReach({root}, allNodes) \ {root}

\* The layout roots that govern node id.
RootsOf(id, allNodes) ==
    {r \in NodeIds(allNodes) : IsRoot(allNodes, r) /\ id \in ManagedBy(r, allNodes)}

RECURSIVE GraphReach(_)
\* The ids reachable from the ids of S along any edges.
GraphReach(S) ==
    LET more == S \cup {e.target : e \in {f \in EdgeSet : f.source \in S}}
    IN  IF more = S THEN S ELSE GraphReach(more)

\* The descendants of root: what one or more edges lead to.
Descendants(root) == GraphReach({e.target : e \in {f \in EdgeSet : f.source = root}})

\* The descendants of root that every path from root reaches only through a node
\* bearing a layoutType (such a node itself included).
Shielded(root, allNodes) ==
    (Descendants(root) \cap NodeIds(allNodes)) \ FreeReach({root}, allNodes)

\* The root node and the node collection the last pass (an apply or a drag) ran on.
PassRoot ==
    IF last.op = "apply"
    THEN [FindNode(pre, last.id) EXCEPT !.layoutType = last.dir]
    ELSE [id |-> last.id, x |-> last.x, y |-> last.y, draggable |-> TRUE,
          layoutType |-> last.dir]

PassNodes == ReplaceNode(pre, last.id, PassRoot)

\* Whether the last operation ran a layout pass.
PassRan ==
    \/ last.op = "apply" /\ HasNode(pre, last.id)
    \/ last.op = "drag" /\ HasNode(pre, last.id) /\ last.dir # NoLayout

\* The dimension tree of the last pass.
PassTree == TreeOf(last.id, last.dir, PassNodes, edges)

PassIds == TreeIds(PassTree)

Abs(a) == IF a >= 0 THEN a ELSE 0 - a

\* Whether the NODE_WIDTH x NODE_HEIGHT boxes of two nodes overlap.
Overlap(a, b) == Abs(a.x - b.x) < NODE_WIDTH /\ Abs(a.y - b.y) < NODE_HEIGHT

SamePlace(a, b) == a.x = b.x /\ a.y = b.y

(* ------------------------------ claims --------------------------------- *)

\* C1: after applyLayout(root, d) on an existing root, every node of the dimension
\* tree other than root is not draggable, and root is draggable.
C1_LockInvariant ==
    (last.op = "apply" /\ HasNode(pre, last.id)) =>
        /\ last.id \in PassIds
        /\ \A i \in DOMAIN nodes :
              nodes[i].id \in PassIds => (nodes[i].draggable <=> nodes[i].id = last.id)

C1_Witness ==
    /\ last.op = "apply"
    /\ HasNode(pre, last.id)
    /\ Cardinality(PassIds) >= 3
    /\ \E i \in DOMAIN nodes :
          nodes[i].id \in PassIds /\ pre[i].draggable /\ ~nodes[i].draggable

\* C2 (as claimed): from the all-free state, in every state reached by applyLayout,
\* clearLayout and onDrag on a fixed graph, every node that has no layoutType and is
\* governed by a layout root is not draggable.
C2_ManagedNotDraggable ==
    \A i \in DOMAIN nodes :
        (nodes[i].layoutType = NoLayout /\ RootsOf(nodes[i].id, nodes) # {})
            => ~nodes[i].draggable

\* C3 (as claimed): every non-draggable node is governed by exactly one layout root.
C3_ExactlyOneRoot ==
    \A i \in DOMAIN nodes :
        ~nodes[i].draggable => Cardinality(RootsOf(nodes[i].id, nodes)) = 1

\* C3 (amended): every non-draggable node is governed by at least one layout root.
C3_AtLeastOneRoot ==
    \A i \in DOMAIN nodes :
        ~nodes[i].draggable => Cardinality(RootsOf(nodes[i].id, nodes)) >= 1

C3_Witness ==
    /\ last.op = "apply"
    /\ \E i \in DOMAIN nodes :
          /\ ~nodes[i].draggable
          /\ Cardinality(RootsOf(nodes[i].id, nodes)) = 2

\* C4: applyLayout(A, d) immediately followed by clearLayout(A) leaves A without
\* layoutType and draggable, and every node the pass of A had locked draggable again
\* (unless it declares a layoutType of its own).
C4_ClearRestores ==
    [][(/\ last.op = "apply"
        /\ HasNode(nodes, last.id)
        /\ last'.op = "clear"
        /\ last'.id = last.id)
       => /\ FindNode(nodes', last.id).layoutType = NoLayout
          /\ FindNode(nodes', last.id).draggable
          /\ \A i \in DOMAIN nodes :
                (/\ nodes[i].id \in PassIds \ {last.id}
                 /\ ~nodes[i].draggable
                 /\ LayoutOf(nodes', nodes[i].id) = NoLayout)
                => FindNode(nodes', nodes[i].id).draggable]_vars

\* Exactly two operations ran from the all-free state; the first left last.id a layout
\* root, so it was applyLayout(last.id, d); the second was clearLayout(last.id).
C4_Witness ==
    /\ budget = MaxPassSteps - 2
    /\ last.op = "clear"
    /\ IsRoot(pre, last.id)
    /\ Cardinality({i \in DOMAIN nodes : ~pre[i].draggable /\ nodes[i].draggable}) >= 2
    /\ \A i \in DOMAIN nodes : nodes[i].draggable /\ nodes[i].layoutType = NoLayout

\* C5: clearLayout(root) leaves every descendant that declares its own layoutType
\* unchanged (draggable, position, layoutType), keeps the draggable flag of every node
\* reachable from root only through such descendants, and unlocks nothing but nodes it
\* reaches through nodes without layoutType.
C5_ClearKeepsBoundaries ==
    (last.op = "clear") =>
        /\ Len(nodes) = Len(pre)
        /\ \A i \in DOMAIN pre :
              /\ (/\ pre[i].id # last.id
                  /\ pre[i].id \in Descendants(last.id)
                  /\ pre[i].layoutType # NoLayout) => nodes[i] = pre[i]
              /\ pre[i].id \in Shielded(last.id, pre) =>
                    nodes[i].draggable = pre[i].draggable
              /\ nodes[i].draggable # pre[i].draggable =>
                    pre[i].id \in FreeReach({last.id}, pre)

C5_Witness ==
    /\ last.op = "clear"
    /\ IsRoot(pre, last.id)
    /\ \E i, j \in DOMAIN pre :
          /\ pre[i].id # last.id
          /\ pre[i].layoutType # NoLayout
          /\ [source |-> last.id, target |-> pre[i].id] \in EdgeSet
          /\ pre[j].id \in Shielded(last.id, pre)
          /\ pre[j].id \in ManagedBy(pre[i].id, pre)
          /\ ~pre[j].draggable
          /\ ~nodes[j].draggable

\* C6: in a pass started by applyLayout(P, d) or onDrag(P, p), a node C other than P
\* that declares its own layoutType is not in the dimension tree, and C and the nodes
\* reachable from P only through such nodes keep their position and draggable flag.
C6_BoundaryRespect ==
    PassRan =>
        \A i \in DOMAIN pre :
            /\ (pre[i].id # last.id /\ pre[i].layoutType # NoLayout) =>
                  /\ pre[i].id \notin PassIds
                  /\ SamePlace(nodes[i], pre[i])
                  /\ nodes[i].draggable = pre[i].draggable
            /\ pre[i].id \in Shielded(last.id, PassNodes) =>
                  /\ pre[i].id \notin PassIds
                  /\ SamePlace(nodes[i], pre[i])
                  /\ nodes[i].draggable = pre[i].draggable

C6_Witness ==
    /\ PassRan
    /\ last.op = "drag"
    /\ ~SamePlace(FindNode(nodes, last.id), FindNode(pre, last.id))
    /\ \E i, j \in DOMAIN pre :
          /\ pre[i].id # last.id
          /\ pre[i].layoutType # NoLayout
          /\ [source |-> last.id, target |-> pre[i].id] \in EdgeSet
          /\ pre[j].id \in Shielded(last.id, PassNodes)
          /\ pre[j].id \in ManagedBy(pre[i].id, pre)
          /\ ~nodes[j].draggable

\* C7: applyLayout(root, d) run a second time on the state the first run left changes
\* nothing: positions, draggable flags and layoutTypes are those of the single run.
C7_Idempotent ==
    [][(/\ last.op = "apply"
        /\ last'.op = "apply"
        /\ last'.id = last.id
        /\ last'.dir = last.dir) => nodes' = nodes]_vars

\* Exactly two operations ran from the all-free state; the first gave last.id the
\* layoutType last.dir, so both were applyLayout(last.id, last.dir).
C7_Witness ==
    /\ budget = MaxPassSteps - 2
    /\ last.op = "apply"
    /\ LayoutOf(pre, last.id) = last.dir
    /\ Cardinality(PassIds) >= 3
    /\ \E i \in DOMAIN nodes : ~SamePlace(nodes[i], FreshNode(nodes[i].id))
    /\ nodes = pre

\* C8: onDrag(R, p) of a layout root R that stood at q puts R at p and every node of
\* its dimension tree at the position the layout anchored at q gives it, shifted by
\* p - q.
C8_DragReanchors ==
    (last.op = "drag" /\ HasNode(pre, last.id) /\ last.dir # NoLayout) =>
        LET R == FindNode(pre, last.id)
            laidOut == runLayout(R, pre, edges)
        IN  /\ FindNode(nodes, last.id).x = last.x
            /\ FindNode(nodes, last.id).y = last.y
            /\ \A i \in DOMAIN nodes :
                  nodes[i].id \in PassIds =>
                      /\ nodes[i].x = laidOut[i].x + (last.x - R.x)
                      /\ nodes[i].y = laidOut[i].y + (last.y - R.y)

C8_Witness ==
    /\ last.op = "drag"
    /\ HasNode(pre, last.id)
    /\ last.dir # NoLayout
    /\ Cardinality(PassIds) >= 3
    /\ runLayout(FindNode(pre, last.id), pre, edges) = pre
    /\ \A i \in DOMAIN nodes :
          nodes[i].id \in PassIds =>
              /\ nodes[i].x = pre[i].x + DragDelta.x
              /\ nodes[i].y = pre[i].y + DragDelta.y

\* C9: after applyLayout(root, d) no two distinct nodes of the dimension tree have
\* overlapping NODE_WIDTH x NODE_HEIGHT boxes.
C9_NoOverlap ==
    (last.op = "apply" /\ HasNode(pre, last.id)) =>
        \A i, j \in DOMAIN nodes :
            (i # j /\ nodes[i].id \in PassIds /\ nodes[j].id \in PassIds)
                => ~Overlap(nodes[i], nodes[j])

C9_Witness ==
    /\ last.op = "apply"
    /\ HasNode(pre, last.id)
    /\ Cardinality(PassIds) >= 4
    /\ Len(PassTree.children) >= 2
    /\ \E k \in DOMAIN PassTree.children : Len(PassTree.children[k].children) >= 1

\* C10: applyLayout(id, d) and onDrag(id, p) change nothing when id names no node of
\* the collection, whatever edges mention id.
C10_MissingNoOp ==
    (last.op \in {"apply", "drag"} /\ ~HasNode(pre, last.id)) => nodes = pre

C10_Witness ==
    /\ last.op = "drag"
    /\ ~HasNode(pre, last.id)
    /\ last.dir # NoLayout
    /\ \E e \in EdgeSet :
          /\ e.source = last.id
          /\ HasNode(pre, e.target)
          /\ LayoutOf(pre, e.target) = NoLayout

\* C11 (as claimed): clearLayout(id) changes nothing when id names no node of the
\* collection, even when edges lead from id to non-draggable nodes.
C11_ClearMissingNoOp ==
    (last.op = "clear" /\ ~HasNode(pre, last.id)) => nodes = pre

RECURSIVE SubTrees(_)
RECURSIVE SubForest(_)
\* The nodes of a dimension tree, each with its own subtree.
SubTrees(tree) == IF tree.id = 0 THEN {} ELSE {tree} \cup SubForest(tree.children)

SubForest(children) ==
    IF children = <<>> THEN {} ELSE SubTrees(Head(children)) \cup SubForest(Tail(children))

\* The last operation was applyLayout(A, d) on an existing node A.
Applied(A, d) == last.op = "apply" /\ last.id = A /\ last.dir = d /\ HasNode(pre, A)

\* A node that exists, owns no layout and has no outgoing edge.
Leaf(id) == HasNode(pre, id) /\ LayoutOf(pre, id) = NoLayout /\ ChildIds(edges, id) = <<>>

\* A's only child is B, B's only child is C, C is a leaf; B and C own no layout.
StackChain(A, B, C) ==
    /\ Applied(A, "vertical-stack")
    /\ Cardinality({A, B, C}) = 3
    /\ ChildIds(edges, A) = <<B>>
    /\ ChildIds(edges, B) = <<C>>
    /\ HasNode(pre, B)
    /\ LayoutOf(pre, B) = NoLayout
    /\ Leaf(C)

\* C13 (as claimed): in that chain B.y = A.y + 70, C.y = B.y + (measured height of B's
\* subtree) + 10, B.x = C.x = A.x.
C13_StackChainAsClaimed ==
    \A A, B, C \in NodeIds(nodes) :
        StackChain(A, B, C) =>
            LET a == FindNode(nodes, A)
                b == FindNode(nodes, B)
                c == FindNode(nodes, C)
            IN  /\ b.y = a.y + 70
                /\ c.y = b.y + PassTree.children[1].height + 10
                /\ b.x = a.x
                /\ c.x = a.x

\* C13 (amended): in that chain B.y = A.y + 60 and C.y = B.y + 60 (each child stands
\* NODE_HEIGHT + GAP_Y/2 below its parent), B.x = C.x = A.x.
C13_StackChain ==
    \A A, B, C \in NodeIds(nodes) :
        StackChain(A, B, C) =>
            LET a == FindNode(nodes, A)
                b == FindNode(nodes, B)
                c == FindNode(nodes, C)
            IN  /\ b.y = a.y + 60
                /\ c.y = b.y + 60
                /\ b.x = a.x
                /\ c.x = a.x

C13_Witness ==
    \E A, B, C \in NodeIds(nodes) :
        /\ StackChain(A, B, C)
        /\ PassTree.children[1].height = 110
        /\ ~SamePlace(FindNode(nodes, C), FindNode(pre, C))

\* A's children are B then C, both leaves without a layout of their own.
FanRight(A, B, C) ==
    /\ Applied(A, "horizontal-right")
    /\ Cardinality({A, B, C}) = 3
    /\ ChildIds(edges, A) = <<B, C>>
    /\ Leaf(B)
    /\ Leaf(C)

\* C14: in that fan A keeps its position, B.x = C.x = A.x + 230, B is above C, the
\* block of the two slots is centered on A.y + 25 and the centers of B and C are at
\* least 70 apart.
C14_FanRight ==
    \A A, B, C \in NodeIds(nodes) :
        FanRight(A, B, C) =>
            LET a == FindNode(nodes, A)
                b == FindNode(nodes, B)
                c == FindNode(nodes, C)
            IN  /\ SamePlace(a, FindNode(pre, A))
                /\ b.x = a.x + 230
                /\ c.x = a.x + 230
                /\ b.y < c.y
                /\ b.y + (c.y + 50) = 2 * (a.y + 25)
                /\ (c.y + 25) - (b.y + 25) >= 70

C14_Witness ==
    \E A, B, C \in NodeIds(nodes) :
        /\ FanRight(A, B, C)
        /\ ~SamePlace(FindNode(nodes, B), FindNode(pre, B))
        /\ ~SamePlace(FindNode(nodes, C), FindNode(pre, C))

\* The vertical center of a child's subtree: in a horizontal layout, the center of the
\* child's node.
CenterY(id) == FindNode(nodes, id).y + 25

Horizontal == {"horizontal-right", "horizontal-left"}

\* The pairs <<c_i, c_(i+1)>> of consecutive children over all nodes of the tree.
SiblingPairs ==
    UNION {{<<t.children[i], t.children[i + 1]>> : i \in 1..(Len(t.children) - 1)} :
            t \in SubTrees(PassTree)}

\* C15 (as claimed): after a horizontal pass, for consecutive children c_i, c_(i+1) of
\* any node of the tree, the center of c_(i+1)'s subtree lies below the center of
\* c_i's subtree by at least the measured height of c_i plus GAP_Y.
C15_CenterGapAsClaimed ==
    (PassRan /\ last.dir \in Horizontal) =>
        \A p \in SiblingPairs :
            CenterY(p[2].id) - CenterY(p[1].id) >= p[1].height + 20

\* C15 (amended): the center of c_(i+1)'s subtree lies below the center of c_i's
\* subtree by exactly half the sum of the two measured heights plus GAP_Y, hence by at
\* least NODE_HEIGHT + GAP_Y = 70.
C15_CenterGap ==
    (PassRan /\ last.dir \in Horizontal) =>
        \A p \in SiblingPairs :
            LET gap == CenterY(p[2].id) - CenterY(p[1].id)
            IN  /\ 2 * gap = p[1].height + p[2].height + 2 * 20
                /\ gap >= 70

C15_Witness ==
    /\ PassRan
    /\ last.dir \in Horizontal
    /\ \E p \in SiblingPairs :
          /\ p[1].height > p[2].height
          /\ CenterY(p[2].id) - CenterY(p[1].id) < p[1].height + 20

\* C16: applyLayout(root, d) on an existing root keeps the collection's length and
\* order, leaves every node outside the dimension tree as it was, and keeps the root's
\* position; on a missing root it leaves the collection as it was.
C16_PassFootprint ==
    (last.op = "apply") =>
        IF HasNode(pre, last.id)
        THEN /\ Len(nodes) = Len(pre)
             /\ \A i \in 1..Len(pre) :
                    /\ nodes[i].id = pre[i].id
                    /\ pre[i].id \notin PassIds => nodes[i] = pre[i]
             /\ SamePlace(FindNode(nodes, last.id), FindNode(pre, last.id))
        ELSE nodes = pre

C16_Witness ==
    /\ PassRan
    /\ Cardinality(PassIds) >= 2
    /\ \E i \in 1..Len(pre) :
          /\ pre[i].id \notin PassIds
          /\ pre[i].draggable
          /\ nodes[i] = pre[i]
    /\ \E i \in 1..Len(pre) :
          /\ pre[i].id \in PassIds
          /\ nodes[i] # pre[i]

\* C19: dragging a node that owns no layout changes no stored node, whatever outgoing
\* edges it has and whatever layout an ancestor owns.
C19_DragWithoutLayout ==
    (last.op = "drag" /\ last.dir = NoLayout) => nodes = pre

C19_Witness ==
    /\ last.op = "drag"
    /\ last.dir = NoLayout
    /\ HasNode(pre, last.id)
    /\ ChildIds(edges, last.id) # <<>>
    /\ RootsOf(last.id, pre) # {}
    /\ nodes = pre

\* The measured boxes of the children of a tree node, as sets of indices.
ChildWidths(t) == [i \in 1..Len(t.children) |-> t.children[i].width]

ChildHeights(t) == [i \in 1..Len(t.children) |-> t.children[i].height]

\* C20: every node of the dimension tree has the box its layout prescribes over its
\* kept children C: 180 x 50 without children in every direction; horizontal-right/left:
\* width 180 + 50 + max child width, height max(50, sum of child heights + (|C|-1)*20);
\* vertical-down/up: width max(180, sum of child widths + (|C|-1)*50), height
\* 50 + 20 + max child height.
C20_MeasuredBox ==
    PassRan =>
        \A t \in SubTrees(PassTree) :
            LET k == Len(t.children)
                W == ChildWidths(t)
                H == ChildHeights(t)
            IN  IF k = 0
                THEN t.width = 180 /\ t.height = 50
                ELSE CASE last.dir \in Horizontal ->
                            /\ t.width = 180 + 50 + MaxOf(W)
                            /\ t.height = Max2(50, Sum(H) + (k - 1) * 20)
                       [] last.dir \in {"vertical-down", "vertical-up"} ->
                            /\ t.width = Max2(180, Sum(W) + (k - 1) * 50)
                            /\ t.height = 50 + 20 + MaxOf(H)
                       [] OTHER -> TRUE

C20_Witness ==
    /\ PassRan
    /\ last.dir # "vertical-stack"
    /\ \E t \in SubTrees(PassTree) :
          /\ Len(t.children) >= 2
          /\ \E i \in 1..Len(t.children) : Len(t.children[i].children) >= 1

\* C17 (as claimed): once the callback deferred by a Tab under a parent that owns a
\* layout has run, the new child belongs to the subtree that pass measured and stands
\* where the layout engine puts it for the edges that include parent -> child.
C17_TabChildLaidOut ==
    (last.op = "timer" /\ LayoutOf(pre, last.id) = last.dir) =>
        /\ last.child \in TreeIds(TreeOf(last.id, last.dir, pre, last.edges))
        /\ SamePlace(FindNode(nodes, last.child),
                     FindNode(applyLayout(last.id, last.dir, pre, edges), last.child))

\* The node the last operation created.
Created == nodes[Len(nodes)]

\* C18 (as claimed): every node created by Add Node, a double click or Tab is created
\* draggable and without a layout, whatever the state of the selected parent.
C18_CreatedFree ==
    (last.op \in {"add", "tab"}) =>
        /\ Created.draggable
        /\ Created.layoutType = NoLayout

\* C18 (amended): every created node has no layout; a node created by Add Node or a
\* double click is draggable; a node created by Tab is draggable exactly when the
\* selected parent owns no layout.
C18_Created ==
    /\ (last.op \in {"add", "tab"}) => Created.layoutType = NoLayout
    /\ (last.op = "add") => Created.draggable
    /\ (last.op = "tab") => (Created.draggable <=> LayoutOf(pre, last.id) = NoLayout)

C18_Witness ==
    /\ last.op = "tab"
    /\ LayoutOf(pre, last.id) # NoLayout
    /\ Created.id = last.child
    /\ ~Created.draggable

\* C12: every layout operation terminates on any finite graph, cycles, self-loops,
\* duplicate edges and several parents included: a measuring recursion or an unlock
\* traversal that has started comes to an empty stack, where the recursion has returned
\* and the loop has ended, and the stack never grows beyond MaxTermStack on the way.
C12_Terminates ==
    /\ [](Len(run.stack) <= MaxTermStack)
    /\ (run.phase # "idle") ~> (run.stack = <<>>)

\* The edges of the graph close a cycle through node a within the set S.
OnCycle(a, S) ==
    \E b \in S : /\ [source |-> a, target |-> b] \in EdgeSet
                 /\ (b = a \/ [source |-> b, target |-> a] \in EdgeSet)

C12_Witness ==
    /\ run.phase = "idle"
    /\ last.op \in {"apply", "clear"}
    /\ last = run.op
    /\ Cardinality(run.visited) >= 2
    /\ \E a \in run.visited : OnCycle(a, run.visited)

\* The traversals followed call by call visit what the operations taken as one step
\* visit, and leave the collection those leave.
TraversalsAgree ==
    (run.phase = "idle" /\ last.op # "init") =>
        /\ last.op = "apply" /\ HasNode(pre, last.id) =>
              /\ run.visited =
                    buildLayoutTree(last.id, last.dir, PassNodes, edges, {}).visited
              /\ nodes = applyLayout(last.id, last.dir, pre, edges)
        /\ last.op = "clear" => nodes = clearLayout(last.id, pre, edges)

\* The stored node of a tree node after the pass.
At(t) == FindNode(nodes, t.id)

\* The lowest bottom edge among the nodes of a subtree.
Bottom(t) ==
    (CHOOSE b \in {FindNode(nodes, id).y + 50 : id \in TreeIds(t)} :
        \A id \in TreeIds(t) : FindNode(nodes, id).y + 50 <= b)

\* C21: in a vertical-stack pass every tree node with kept children C measures
\* 180 wide and 50 + 10 + sum of child heights + (|C|-1)*10 high; its first child
\* stands at parent.y + 50 + 10, each next child below the previous one by that child's
\* subtree height + 10, all at parent.x; the lowest bottom edge of the subtree is
\* parent.y + measured height.
C21_StackBox ==
    (PassRan /\ last.dir = "vertical-stack") =>
        \A t \in SubTrees(PassTree) :
            LET k == Len(t.children)
            IN  k > 0 =>
                  /\ t.width = 180
                  /\ t.height = 50 + 10 + Sum(ChildHeights(t)) + (k - 1) * 10
                  /\ At(t.children[1]).y = At(t).y + 50 + 10
                  /\ \A i \in 1..k : At(t.children[i]).x = At(t).x
                  /\ \A i \in 1..(k - 1) :
                        At(t.children[i + 1]).y =
                            At(t.children[i]).y + t.children[i].height + 10
                  /\ Bottom(t) = At(t).y + t.height

C21_Witness ==
    /\ PassRan
    /\ last.dir = "vertical-stack"
    /\ \E t \in SubTrees(PassTree) :
          /\ Len(t.children) >= 2
          /\ t.children[1].height > 50
          /\ Bottom(t) = At(t).y + t.height

Vertical == {"vertical-down", "vertical-up"}

RECURSIVE StartsFrom(_, _, _)
\* Where the slots of the children start, the first one starting at start.
StartsFrom(children, start, layoutType) ==
    IF children = <<>>
    THEN <<>>
    ELSE <<start>> \o StartsFrom(Tail(children),
                                 NextSlot(Head(children), start, layoutType), layoutType)

\* The slots of the children of tree node t in the last pass.
SlotsOf(t) == StartsFrom(t.children, SlotStart(t, At(t).x, At(t).y, last.dir), last.dir)

\* The length of a child's slot, and the middle of a stored node, along the axis the
\* children are stacked on.
SlotSize(c) == IF last.dir \in Horizontal THEN c.height ELSE c.width

Middle2(n) == IF last.dir \in Horizontal THEN 2 * n.y + 50 ELSE 2 * n.x + 180

\* The index of the first edge of the list that leads to child c.
FirstAt(childIds, c) ==
    CHOOSE i \in DOMAIN childIds :
        childIds[i] = c /\ \A j \in 1..(i - 1) : childIds[j] # c

\* C22: in a horizontal (resp. vertical-down/up) pass, for every tree node with
\* children, the slots follow each other in edge order, the next one starting exactly
\* 20 (resp. 50) after the end of the previous one, the block from the start of the
\* first slot to the end of the last is centered on the middle of the parent's node, and
\* each child's node is centered in its slot.
C22_Slots ==
    (PassRan /\ last.dir \in Horizontal \cup Vertical) =>
        \A t \in SubTrees(PassTree) :
            LET k == Len(t.children)
                S == SlotsOf(t)
            IN  k > 0 =>
                  /\ \A i \in 1..(k - 1) :
                        FirstAt(ChildIds(edges, t.id), t.children[i].id) <
                            FirstAt(ChildIds(edges, t.id), t.children[i + 1].id)
                  /\ \A i \in 1..(k - 1) :
                        S[i + 1] - (S[i] + SlotSize(t.children[i])) =
                            IF last.dir \in Horizontal THEN 20 ELSE 50
                  /\ 2 * S[1] + (S[k] + SlotSize(t.children[k]) - S[1]) = Middle2(At(t))
                  /\ \A i \in 1..k :
                        Middle2(At(t.children[i])) = 2 * S[i] + SlotSize(t.children[i])

C22_Witness ==
    /\ PassRan
    /\ last.dir \in Vertical
    /\ \E t \in SubTrees(PassTree) :
          /\ Len(t.children) >= 2
          /\ t.children[1].width > t.children[2].width

\* What the pass of the last operation would have left had its direction been d.
PassWith(d) ==
    runLayout([PassRoot EXCEPT !.layoutType = d],
              ReplaceNode(pre, last.id, [PassRoot EXCEPT !.layoutType = d]), edges)

\* C23: for the same graph and root position, a node's position under horizontal-left
\* is its position under horizontal-right with the x offset from the root negated and
\* the same y; under vertical-up it is its position under vertical-down with the y
\* offset from the root negated and the same x.
C23_Mirror ==
    /\ (PassRan /\ last.dir = "horizontal-right") =>
          \A id \in PassIds :
              LET r == FindNode(nodes, last.id)
                  a == FindNode(nodes, id)
                  b == FindNode(PassWith("horizontal-left"), id)
              IN  b.x - r.x = -(a.x - r.x) /\ b.y = a.y
    /\ (PassRan /\ last.dir = "vertical-down") =>
          \A id \in PassIds :
              LET r == FindNode(nodes, last.id)
                  a == FindNode(nodes, id)
                  b == FindNode(PassWith("vertical-up"), id)
              IN  b.y - r.y = -(a.y - r.y) /\ b.x = a.x

C23_Witness ==
    /\ PassRan
    /\ last.dir = "vertical-down"
    /\ TreeSize(PassTree) >= 4
    /\ \E id \in PassIds :
          /\ FindNode(nodes, id).y - FindNode(nodes, last.id).y = 140
          /\ FindNode(PassWith("vertical-up"), id).y - FindNode(nodes, last.id).y = -140

\* C24: on any finite graph each node id occurs at most once in the dimension tree of
\* a pass, so each position is written once; every child of a tree node is an
\* existing node, and no two children of the tree are the same node.
C24_OncePerPass ==
    PassRan =>
        /\ TreeSize(PassTree) = Cardinality(PassIds)
        /\ PassIds \subseteq NodeIds(pre)
        /\ \A t \in SubTrees(PassTree) :
              \A i, j \in 1..Len(t.children) :
                  i # j => t.children[i].id # t.children[j].id
        /\ \A t \in SubTrees(PassTree) :
              \A i \in 1..Len(t.children) : t.children[i].id # last.id

C24_Witness ==
    /\ PassRan
    /\ TreeSize(PassTree) >= 2
    /\ \E i, j \in DOMAIN edges :
          /\ i # j
          /\ edges[i].target = edges[j].target
          /\ edges[i].source \in PassIds
          /\ edges[j].source \in PassIds
          /\ edges[i].target \in PassIds

\* The box of tree node t around its stored node: [left, right] x [top, bottom].
BoxOf(t) ==
    LET n == At(t)
    IN  CASE last.dir = "horizontal-right" ->
                [left |-> n.x, right |-> n.x + t.width,
                 top |-> n.y + 25 - t.height \div 2, bottom |-> n.y + 25 + t.height \div 2]
          [] last.dir = "horizontal-left" ->
                [left |-> n.x + 180 - t.width, right |-> n.x + 180,
                 top |-> n.y + 25 - t.height \div 2, bottom |-> n.y + 25 + t.height \div 2]
          [] last.dir = "vertical-down" ->
                [left |-> n.x + 90 - t.width \div 2, right |-> n.x + 90 + t.width \div 2,
                 top |-> n.y, bottom |-> n.y + t.height]
          [] last.dir = "vertical-up" ->
                [left |-> n.x + 90 - t.width \div 2, right |-> n.x + 90 + t.width \div 2,
                 top |-> n.y + 50 - t.height, bottom |-> n.y + 50]
          [] OTHER ->
                [left |-> n.x, right |-> n.x + t.width,
                 top |-> n.y, bottom |-> n.y + t.height]

\* The stored node id, 180 x 50, lies inside box b.
Inside(id, b) ==
    LET n == FindNode(nodes, id)
    IN  /\ b.left <= n.x
        /\ n.x + 180 <= b.right
        /\ b.top <= n.y
        /\ n.y + 50 <= b.bottom

\* C27: after a pass every node of the subtree of a tree node lies inside that tree
\* node's measured box: for horizontal-right with its left edge at the node's x and
\* vertically centered on the node (mirrored for horizontal-left, transposed for
\* vertical-down/up), for vertical-stack with its top-left at the node's top-left.
C27_BoxBounds ==
    PassRan =>
        \A t \in SubTrees(PassTree) :
            \A id \in TreeIds(t) : Inside(id, BoxOf(t))

C27_Witness ==
    /\ PassRan
    /\ last.dir = "horizontal-left"
    /\ \E t \in SubTrees(PassTree) :
          /\ t.id # last.id
          /\ Len(t.children) >= 2
          /\ \E id \in TreeIds(t) : FindNode(nodes, id).y = BoxOf(t).top

\* C28: clearLayout(id) changes no position, changes the layout of no node other than
\* id, sets no draggable flag to false and keeps the ids and their order; after
\* applyLayout then clearLayout of the same node the nodes the layout managed are where
\* the engine put them.
C28_ClearFrame ==
    (last.op = "clear") =>
        /\ Len(nodes) = Len(pre)
        /\ \A i \in 1..Len(pre) :
              /\ nodes[i].id = pre[i].id
              /\ SamePlace(nodes[i], pre[i])
              /\ nodes[i].id # last.id => nodes[i].layoutType = pre[i].layoutType
              /\ pre[i].draggable => nodes[i].draggable

C28_Witness ==
    /\ last.op = "clear"
    /\ LayoutOf(pre, last.id) # NoLayout
    /\ \E i \in 1..Len(pre) :
          /\ pre[i].id # last.id
          /\ ~pre[i].draggable
          /\ nodes[i].draggable
          /\ SamePlace(nodes[i], pre[i])
          /\ ~SamePlace(nodes[i], FreshNode(pre[i].id))

\* The positions the assigner computes in the last pass.
Assigned == applyPositions(PassTree, PassRoot.x, PassRoot.y, last.dir, <<>>)

\* The nodes without a layout that the root of the last pass and another layout root
\* both reach through no other layout root.
SharedWithPass ==
    {X \in ManagedBy(last.id, PassNodes) :
        \E R \in NodeIds(PassNodes) \ {last.id} :
            IsRoot(PassNodes, R) /\ X \in ManagedBy(R, PassNodes)}

\* C25: a node two layout roots reach stands, after a pass of either of them (an
\* applyLayout or a drag of that root), where that pass puts it, and is not draggable.
C25_LastRootWins ==
    PassRan =>
        \A X \in SharedWithPass :
            /\ X \in DOMAIN Assigned
            /\ FindNode(nodes, X).x = Assigned[X].x
            /\ FindNode(nodes, X).y = Assigned[X].y
            /\ ~FindNode(nodes, X).draggable

\* R1 is dragged after applyLayout(R1) and applyLayout(R2): the shared node leaves the
\* place R2's pass gave it for the one R1's pass gives it.
C25_Witness ==
    /\ last.op = "drag"
    /\ PassRan
    /\ \E X \in SharedWithPass :
          \E R2 \in NodeIds(pre) \ {last.id} :
              /\ IsRoot(pre, R2)
              /\ X \in ManagedBy(R2, pre)
              /\ pre = applyLayout(R2, LayoutOf(pre, R2), pre, edges)
              /\ ~FindNode(pre, X).draggable
              /\ ~SamePlace(FindNode(nodes, X), FindNode(pre, X))
              /\ FindNode(nodes, X).x = Assigned[X].x
              /\ FindNode(nodes, X).y = Assigned[X].y

\* The note the stored content of file fileId holds for node nodeId.
StoredNote(fileId, nodeId) ==
    LET content == app.files[FindIndex(app.files, fileId)].content
    IN  FindNode(content.nodes, nodeId).note

\* C26 (as claimed): after a save of a file, the stored content of that file still
\* holds the note last given to one of its nodes in the note panel.
C26_NoteKept ==
    (/\ last.op = "save"
     /\ app.edit.file = last.id
     /\ HasNode(app.files, last.id)
     /\ HasNode(app.files[FindIndex(app.files, last.id)].content.nodes, app.edit.node))
        => StoredNote(last.id, app.edit.node) = app.edit.note

\* C29 (as claimed): every folder's parentId is null or the id of an existing folder,
\* and every file's folderId is null or the id of an existing folder.
C29_TreeIntact ==
    /\ \A i \in DOMAIN app.folders : app.folders[i].parentId \in FolderIds \cup {Null}
    /\ \A i \in DOMAIN app.files : app.files[i].folderId \in FolderIds \cup {Null}

\* C30 (as claimed): activeFileId is null or the id of an existing file.
C30_ActiveExists == app.activeFileId \in FileIds \cup {Null}

====
